---- MODULE Spec2Model ----
(***************************************************************************)
(* Model of the v8engine bridge: the Go binding (engine.go) and the native *)
(* bridge behind it (src/unnamed/part_000, included through v8engine.h).   *)
(* Host threads call the binding's operations; every operation is a frame  *)
(* on its thread's call stack and advances one step of code at a time.     *)
(* The embedded engine is modelled at its interface: what it does with     *)
(* each of a few script and module sources.                                *)
(***************************************************************************)
EXTENDS Integers, Sequences, FiniteSets, TLC

(* ------------------------------ bounds --------------------------------- *)
\* Operations the host calls in one behaviour (nested loads included).
MaxCalls == 4
\* Calls of Engine.LoadModule in one behaviour: caps nextResolverToken.
MaxLoads == 2
\* Host threads of the concurrent specification.
NumThreads == 2

Threads == 1..NumThreads
MainThread == {1}
CtxIds == 1..MaxCalls
ValueSlots == 1..MaxCalls

(* ------------------------- C pointers and text ------------------------- *)
\* A text is a sequence of words; a pointer is <<>> (null) or <<target>>.
NULL == <<>>
Ptr(x) == <<x>>
IsNull(p) == p = <<>>
Deref(p) == p[1]

\* CopyString(std::string): always allocates.
CopyString(str) == Ptr(str)

\* CopyString(String::Utf8Value&): null for a value of length 0.
CopyStringUtf8(value) == IF Len(value) = 0 THEN NULL ELSE CopyString(value)

\* C.GoString: the Go string of a C string, "" for a null pointer.
GoString(p) == IF IsNull(p) THEN <<>> ELSE Deref(p)

\* An insertion that drops every other entry.
PutAlone(m, k, v) == [x \in {k} |-> v]
\* std::map / Go map: insert or overwrite.
Put(m, k, v) == [x \in (DOMAIN m) \cup {k} |-> IF x = k THEN v ELSE m[x]]
\* An erase that leaves the entry in, and one that clears the map.
RemoveNothing(m, k) == m
RemoveAll(m, k) == [x \in {} |-> 0]
\* Go map: delete(m, k).
Remove(m, k) == [x \in (DOMAIN m) \ {k} |-> m[x]]
EmptyMap == [x \in {} |-> 0]

\* printf("%s\n", p): a null p is undefined behaviour; the build either prints a
\* placeholder and goes on, or dereferences the pointer and the process dies.
PrintfOutcomes(p) == IF IsNull(p) THEN {"printed", "crashed"} ELSE {"printed"}

(* --------------------- the embedded engine (scripts) ------------------- *)
\* Script sources the host submits to Run and what the engine does with each.
Sources == {"1+1", "throw new Error('boom')", "throw ''", "syntax(",
            "V8Engine.cb(f1)", "V8Engine.cb(f2)", "V8Engine.cb(f3)"}
Origins == {"test.js"}
\* Script functions handed to V8Engine.cb: f1 returns, f2 throws an Error object,
\* f3 throws the primitive string 'x'.
Funcs == {"f1", "f2", "f3"}
FuncThrows(func) == func \in {"f2", "f3"}

ScriptCompiles(source) == source # "syntax("
ScriptThrows(source) == source \in {"throw new Error('boom')", "throw ''"}
ScriptRegisters(source) ==
  CASE source = "V8Engine.cb(f1)" -> Ptr("f1")
    [] source = "V8Engine.cb(f2)" -> Ptr("f2")
    [] source = "V8Engine.cb(f3)" -> Ptr("f3")
    [] OTHER -> NULL
ScriptValue(source) == IF source = "1+1" THEN <<"2">> ELSE <<"undefined">>

\* The TryCatch after a failed compile or run of `source`, compiled under the
\* resource name `resourceName`.
ScriptTryCatch(source, resourceName) ==
  [terminated |-> FALSE,
   exception |-> CASE source = "syntax(" -> <<"SyntaxError:", "Unexpected", "end">>
                   [] source = "throw new Error('boom')" -> <<"Error:", "boom">>
                   [] OTHER -> <<>>,
   hasMessage |-> TRUE,
   resourceName |-> resourceName,
   line |-> Ptr(1),
   startColumn |-> IF source = "syntax(" THEN Ptr(7) ELSE Ptr(0),
   stack |-> IF source = "throw new Error('boom')"
               THEN Ptr(<<"Error:", "boom", "at", resourceName>>) ELSE NULL]

\* The TryCatch after the callback `func` threw: only an Error object has a stack.
CallbackTryCatch(func) ==
  [terminated |-> FALSE,
   exception |-> IF func = "f2" THEN <<"Error:", "boom">> ELSE <<"x">>,
   hasMessage |-> TRUE, resourceName |-> "test.js", line |-> Ptr(1), startColumn |-> Ptr(0),
   stack |-> IF func = "f2" THEN Ptr(<<"Error:", "boom", "at", "test.js">>) ELSE NULL]

(* --------------------- the embedded engine (modules) ------------------- *)
ModuleNames == {"a.js", "b.js"}
ModuleSources == {"export const x = 1;", "import './b'; import './c';",
                  "import {y} from './b';", "syntax(", "throw new Error('boom')", "throw ''"}
\* Host resolvers: r1 only answers; r2 may first load a module itself, on the same
\* Engine and with r1 as its resolver, and then answers. The host hands r2 to the
\* loads it starts: what r1 would do there, r2 does when it loads nothing.
Resolvers == {"r1", "r2"}
LoadingResolvers == {"r2"}
\* Statuses a host resolver hands back: success, the documented failure, one of its own.
ResolverStatuses == {0, 1, 7}
\* The answers (canon, status) of a resolver: a name with status 0, or a failure.
ResolverAnswers ==
  {<<n, 0>> : n \in ModuleNames} \cup {<<"", st>> : st \in ResolverStatuses \ {0}}
\* Module::GetIdentityHash() is a hash: distinct modules may share one.
IdentityHashes == {11, 12}

ModuleCompiles(source) == source # "syntax("
\* module->GetModuleRequest(i), i = 0 .. GetModuleRequestsLength() - 1
ModuleRequests(source) ==
  CASE source = "import './b'; import './c';" -> <<"./b", "./c">>
    [] source = "import {y} from './b';" -> <<"./b">>
    [] OTHER -> <<>>
\* No module of ModuleSources exports y: linking that import fails.
ModuleLinks(source) == source # "import {y} from './b';"
ModuleThrows(source) == source \in {"throw new Error('boom')", "throw ''"}

ModuleTryCatch(source, name) ==
  [terminated |-> FALSE,
   exception |-> CASE source = "syntax(" -> <<"SyntaxError:", "Unexpected", "end">>
                   [] source = "throw new Error('boom')" -> <<"Error:", "boom">>
                   [] OTHER -> <<>>,
   hasMessage |-> TRUE, resourceName |-> name, line |-> Ptr(1), startColumn |-> Ptr(0),
   stack |-> IF source = "throw new Error('boom')"
               THEN Ptr(<<"Error:", "boom", "at", name>>) ELSE NULL]

(* ----------------------------- errors ---------------------------------- *)
NoError == [msg |-> NULL, location |-> NULL, stack |-> NULL]

ExceptionError(try_catch) ==
  IF try_catch.terminated
    THEN [NoError EXCEPT !.msg = CopyString(<<"ExecutionTerminated:", "script",
                                              "execution", "has", "been", "terminated">>)]
    ELSE [msg |-> CopyStringUtf8(try_catch.exception),
          location |->
            IF try_catch.hasMessage
              THEN CopyString(<<try_catch.resourceName>>
                     \o (IF IsNull(try_catch.line) THEN <<>>
                         ELSE <<":", ToString(Deref(try_catch.line))>>)
                     \o (IF IsNull(try_catch.startColumn) THEN <<>>
                         ELSE <<":", ToString(Deref(try_catch.startColumn) + 1)>>))
              ELSE NULL,
          stack |-> IF IsNull(try_catch.stack) THEN NULL
                    ELSE CopyStringUtf8(Deref(try_catch.stack))]

\* engine.go getValue / getError: what Engine.Run hands to its caller.
getValue(rtn) == rtn.value
getError(rtn) ==
  IF IsNull(rtn.error.msg) THEN NULL
  ELSE Ptr([Message |-> GoString(rtn.error.msg),
            Location |-> GoString(rtn.error.location),
            StackTrace |-> GoString(rtn.error.stack)])

(* ------------------------------ state ---------------------------------- *)
VARIABLES
  v8initDone,         \* sync.Once v8init has run
  initCount,          \* number of executions of InitV8
  ctxs,               \* context slot -> m_ctx (with its lifecycle state)
  locker,             \* context slot -> thread holding the isolate's Locker, 0 if free
  values,             \* value slot -> m_value, or NoValue
  resolverTableLock,  \* thread holding resolverTableLock, 0 if free
  nextResolverToken,
  resolverFuncs,      \* token -> resolver
  tokensIssued,       \* history: the tokens Engine.LoadModule has handed out
  stack,              \* thread -> call stack of frames, innermost last
  aborted,            \* the process has died (undefined behaviour took the crash outcome)
  calls               \* number of operations called so far

vars == <<v8initDone, initCount, ctxs, locker, values, resolverTableLock,
          nextResolverToken, resolverFuncs, tokensIssued, stack, aborted, calls>>

initVars == <<v8initDone, initCount>>
tableVars == <<resolverTableLock, nextResolverToken, resolverFuncs, tokensIssued>>

NoValue == [ctx |-> 0, str |-> <<>>]
NoModule == [name |-> "", hash |-> 0, status |-> ""]

\* lastRegistered and replaced are history: the function of the latest call of the
\* script-side V8Engine.cb on this context, and whether a call replaced another function.
m_ctx(state) ==
  [state |-> state, cb |-> NULL, modules |-> EmptyMap, resolved |-> EmptyMap,
   lastRegistered |-> NULL, replaced |-> FALSE]

\* A frame: the operation, where it stands, its arguments, locals and results.
\* phase, registered, resolverCalls and invoked are history of the call: the step of
\* the load, whether it has registered its module, the calls of the host resolver with
\* their answers (known: the name was in the registry), the callback invocations.
\* owner is who is to release the C copy of the payload of a Send.
Frame(op, pc, c) ==
  [op |-> op, pc |-> pc, ctx |-> c, hasLock |-> FALSE,
   source |-> "", origin |-> "", resolve |-> "", token |-> 0,
   module |-> NoModule, i |-> 0, resolved |-> EmptyMap,
   payload |-> <<>>, owner |-> "", val |-> 0,
   goValue |-> 0, goError |-> NULL, status |-> -1, str |-> NULL,
   phase |-> "", registered |-> FALSE, resolverCalls |-> <<>>, invoked |-> <<>>]

Init ==
  /\ v8initDone = FALSE
  /\ initCount = 0
  /\ ctxs = [c \in CtxIds |-> m_ctx("none")]
  /\ locker = [c \in CtxIds |-> 0]
  /\ values = [v \in ValueSlots |-> NoValue]
  /\ resolverTableLock = 0
  /\ nextResolverToken = 0
  /\ resolverFuncs = EmptyMap
  /\ tokensIssued = {}
  /\ stack = [t \in Threads |-> <<>>]
  /\ aborted = FALSE
  /\ calls = 0

(* --------------------------- stack helpers ----------------------------- *)
Top(t) == stack[t][Len(stack[t])]
\* A dead process takes no step.
Idle(t) == ~aborted /\ stack[t] = <<>>
Running(t) == ~aborted /\ stack[t] # <<>>
At(t, op, pc) == Running(t) /\ Top(t).op = op /\ Top(t).pc = pc
SetTop(t, f) == stack' = [stack EXCEPT ![t][Len(stack[t])] = f]
\* A call of an operation by the host (or by a host resolver): a new frame.
Push(t, f) ==
  /\ calls < MaxCalls
  /\ calls' = calls + 1
  /\ stack' = [stack EXCEPT ![t] = Append(@, f)]

FramesOf(t) == {stack[t][k] : k \in 1..Len(stack[t])}
AllFrames == UNION {FramesOf(t) : t \in Threads}
Live(c) == ctxs[c].state = "live"
\* The Engine of context c is reachable: it exists and its finalizer has not started.
Reachable(c) == Live(c) /\ ~\E f \in AllFrames : f.op = "DisposeContext" /\ f.ctx = c

(* --------------------------- V8 Locker --------------------------------- *)
\* A Locker that excludes nobody.
LockerFreeNoExclusion(t, c) == TRUE

\* Locker locker(isolate): exclusive between threads, recursive within one.
LockerFree(t, c) == locker[c] \in {0, t}
Lock(t) ==
  /\ Running(t) /\ Top(t).pc = "lock"
  /\ LockerFree(t, Top(t).ctx)
  /\ locker' = [locker EXCEPT ![Top(t).ctx] = t]
  /\ SetTop(t, [Top(t) EXCEPT !.pc = "body", !.hasLock = (locker[Top(t).ctx] # t)])
  /\ UNCHANGED <<initVars, ctxs, values, tableVars, aborted, calls>>

\* ~Locker at the return of the frame f.
Unlocked(f) == IF f.hasLock THEN [locker EXCEPT ![f.ctx] = 0] ELSE locker

(* ----------------------------- NewEngine ------------------------------- *)
NewEngineCall(t) ==
  /\ Idle(t)
  /\ Push(t, Frame("NewEngine", "once", 0))
  /\ UNCHANGED <<initVars, ctxs, locker, values, tableVars, aborted>>

\* A Do that runs InitV8 on every call.
OnceDoEveryCall(t) ==
  /\ At(t, "NewEngine", "once")
  /\ v8initDone' = TRUE
  /\ initCount' = initCount + 1
  /\ SetTop(t, [Top(t) EXCEPT !.pc = "newcontext"])
  /\ UNCHANGED <<ctxs, locker, values, tableVars, aborted, calls>>

\* v8init.Do(func() { C.InitV8() })
OnceDo(t) ==
  /\ At(t, "NewEngine", "once")
  /\ v8initDone' = TRUE
  /\ initCount' = IF v8initDone THEN initCount ELSE initCount + 1
  /\ SetTop(t, [Top(t) EXCEPT !.pc = "newcontext"])
  /\ UNCHANGED <<ctxs, locker, values, tableVars, aborted, calls>>

NewContext(t) ==
  /\ At(t, "NewEngine", "newcontext")
  /\ LET c == CHOOSE c \in CtxIds : /\ ctxs[c].state = "none"
                                    /\ \A d \in CtxIds : ctxs[d].state = "none" => c <= d
     IN /\ ctxs' = [ctxs EXCEPT ![c] = m_ctx("live")]
        /\ SetTop(t, [Top(t) EXCEPT !.pc = "done", !.ctx = c])
  /\ UNCHANGED <<initVars, locker, values, tableVars, aborted, calls>>

(* ------------------------- V8Engine.cb (script side) ------------------- *)
\* A registration that keeps a callback already in the slot.
cbKeepsFirst(ctx, func) == IF IsNull(ctx.cb) THEN [ctx EXCEPT !.cb = Ptr(func)] ELSE ctx

\* The native function behind V8Engine.cb: ctx->cb.Reset(isolate, func).
cb(ctx, func) == [ctx EXCEPT !.cb = Ptr(func)]

\* History of the registrations made on a context.
Registered(ctx, func) ==
  [ctx EXCEPT !.lastRegistered = Ptr(func),
              !.replaced = @ \/ (~IsNull(ctx.lastRegistered) /\ ctx.lastRegistered # Ptr(func))]

(* -------------------------------- Run ---------------------------------- *)
FreeValueSlots == {v \in ValueSlots : values[v] = NoValue}

RunCall(t, c, source, origin) ==
  /\ Idle(t) /\ Reachable(c)
  /\ Push(t, [Frame("Run", "lock", c) EXCEPT !.source = source, !.origin = origin])
  /\ UNCHANGED <<initVars, ctxs, locker, values, tableVars, aborted>>

\* The resource name Run compiles the script under.
RunOrigin(source, origin) == source

\* The native Run and, on its return, getValue and getError of Engine.Run.
Run(t) ==
  /\ At(t, "Run", "body")
  /\ LET f == Top(t)
         c == f.ctx
         lOrigin == RunOrigin(f.source, f.origin)
         failed == ~ScriptCompiles(f.source) \/ ScriptThrows(f.source)
         slot == CHOOSE v \in FreeValueSlots : \A w \in FreeValueSlots : v <= w
         rtn == IF failed
                  THEN [value |-> 0,
                        error |-> ExceptionError(ScriptTryCatch(f.source, lOrigin))]
                  ELSE [value |-> slot, error |-> NoError]
         func == ScriptRegisters(f.source)
     IN /\ values' = IF failed THEN values
                     ELSE [values EXCEPT ![slot] = [ctx |-> c, str |-> ScriptValue(f.source)]]
        /\ ctxs' = IF failed \/ IsNull(func) THEN ctxs
                   ELSE [ctxs EXCEPT ![c] = Registered(cb(@, Deref(func)), Deref(func))]
        /\ locker' = Unlocked(f)
        /\ SetTop(t, [f EXCEPT !.pc = "done",
                               !.goValue = getValue(rtn), !.goError = getError(rtn)])
  /\ UNCHANGED <<initVars, tableVars, aborted, calls>>

(* -------------------------------- Send --------------------------------- *)
Payloads == {<<>>, <<7, 9>>}

\* C.CBytes(msg): a C copy of the Go slice.
CBytes(msg) == msg
\* ArrayBuffer::NewBackingStore(data, length, ...): the first `length` bytes of data.
NewBackingStore(data, length) == SubSeq(data, 1, length)

SendCall(t, c, msg) ==
  /\ Idle(t) /\ Reachable(c)
  /\ Push(t, [Frame("Send", "lock", c) EXCEPT !.payload = msg, !.owner = "host"])
  /\ UNCHANGED <<initVars, ctxs, locker, values, tableVars, aborted>>

\* Local<Function>::New(isolate, ctx->cb): the function in the context's slot.
SendCallback(ctx) == ctx.cb

\* A Send that does not test the slot before it reports.
SendStatusNoCheck(func, thrown) == IF thrown THEN 3 ELSE 0

\* The status the native Send returns: no callback, callback threw, success.
SendStatus(func, thrown) ==
  IF IsNull(func) THEN 2
  ELSE IF thrown THEN 3
  ELSE 0

\* Who is to release the bytes of C.CBytes(msg) once Engine.Send has returned: the
\* backing store, when the native Send got as far as NewBackingStore; nobody, when
\* it returned before, as Engine.Send drops the pointer without freeing it.
PayloadOwner(func) == IF IsNull(func) THEN "nobody" ELSE "engine"

\* cb->Call(context, global, 1, args): the invocations one native Send makes.
SendInvocations(func, data, length) ==
  <<[func |-> func, args |-> <<NewBackingStore(data, length)>>]>>

Send(t) ==
  /\ At(t, "Send", "body")
  /\ LET f == Top(t)
         c == f.ctx
         data == CBytes(f.payload)
         length == Len(f.payload)
         func == SendCallback(ctxs[c])
     IN IF IsNull(func)
          THEN /\ SetTop(t, [f EXCEPT !.pc = "done", !.status = SendStatus(func, FALSE),
                                      !.owner = PayloadOwner(func)])
               /\ locker' = Unlocked(f)
               /\ aborted' = aborted
          ELSE LET inv == SendInvocations(Deref(func), data, length)
               IN IF FuncThrows(Deref(func))
                    THEN LET err == ExceptionError(CallbackTryCatch(Deref(func)))
                         IN \E o1 \in PrintfOutcomes(err.msg), o2 \in PrintfOutcomes(err.stack) :
                              IF o1 = "crashed" \/ o2 = "crashed"
                                THEN /\ aborted' = TRUE
                                     /\ SetTop(t, [f EXCEPT !.pc = "crashed", !.invoked = inv,
                                                            !.owner = PayloadOwner(func)])
                                     /\ locker' = locker
                                ELSE /\ aborted' = aborted
                                     /\ SetTop(t, [f EXCEPT !.pc = "done", !.invoked = inv,
                                                            !.status = SendStatus(func, TRUE),
                                                            !.owner = PayloadOwner(func)])
                                     /\ locker' = Unlocked(f)
                    ELSE /\ SetTop(t, [f EXCEPT !.pc = "done", !.invoked = inv,
                                                !.status = SendStatus(func, FALSE),
                                                !.owner = PayloadOwner(func)])
                         /\ locker' = Unlocked(f)
                         /\ aborted' = aborted
  /\ UNCHANGED <<initVars, ctxs, values, tableVars, calls>>

(* ------------------------------ values --------------------------------- *)
\* A value operation in flight on the handle v.
ValueBusy(v) == \E f \in AllFrames : f.op \in {"ValueToString", "DisposeValue"} /\ f.val = v
LiveValues(c) == {v \in ValueSlots : values[v] # NoValue /\ values[v].ctx = c}

\* Value.String() on a reachable Value of a reachable Engine.
ValueToStringCall(t, v) ==
  /\ Idle(t) /\ values[v] # NoValue /\ Reachable(values[v].ctx)
  /\ ~\E f \in AllFrames : f.op = "DisposeValue" /\ f.val = v
  /\ Push(t, [Frame("ValueToString", "lock", values[v].ctx) EXCEPT !.val = v])
  /\ UNCHANGED <<initVars, ctxs, locker, values, tableVars, aborted>>

ValueToString(t) ==
  /\ At(t, "ValueToString", "body")
  /\ LET f == Top(t)
     IN /\ SetTop(t, [f EXCEPT !.pc = "done",
                               !.str = Ptr(GoString(CopyStringUtf8(values[f.val].str)))])
        /\ locker' = Unlocked(f)
  /\ UNCHANGED <<initVars, ctxs, values, tableVars, aborted, calls>>

\* Value.finalizer: C.DisposeValue(v.ptr) on a Value that is no longer reachable;
\* v = 0 is the call on a null handle, which returns before it locks anything.
DisposeValueCall(t, v) ==
  /\ Idle(t)
  /\ v # 0 => (values[v] # NoValue /\ Reachable(values[v].ctx) /\ ~ValueBusy(v))
  /\ Push(t, IF v = 0 THEN [Frame("DisposeValue", "done", 0) EXCEPT !.val = 0]
             ELSE [Frame("DisposeValue", "lock", values[v].ctx) EXCEPT !.val = v])
  /\ UNCHANGED <<initVars, ctxs, locker, values, tableVars, aborted>>

DisposeValue(t) ==
  /\ At(t, "DisposeValue", "body")
  /\ LET f == Top(t)
     IN /\ values' = [values EXCEPT ![f.val] = NoValue]
        /\ SetTop(t, [f EXCEPT !.pc = "done"])
        /\ locker' = Unlocked(f)
  /\ UNCHANGED <<initVars, ctxs, tableVars, aborted, calls>>

(* -------------------------- DisposeContext ----------------------------- *)
\* Engine.finalizer: the Engine is unreachable, so no operation on it is in flight;
\* the host has disposed the values of the context first.
DisposeContextCall(t, c) ==
  /\ Idle(t) /\ Reachable(c)
  /\ ~\E f \in AllFrames : f.ctx = c
  /\ LiveValues(c) = {}
  /\ Push(t, Frame("DisposeContext", "lock", c))
  /\ UNCHANGED <<initVars, ctxs, locker, values, tableVars, aborted>>

\* isolate->Dispose() runs while the Locker and the Isolate::Scope of this very call
\* are alive, and their destructors run on the disposed isolate afterwards: undefined
\* behaviour, which either goes unnoticed or kills the process.
DisposeOutcomes == {"disposed", "crashed"}

DisposeContext(t) ==
  /\ At(t, "DisposeContext", "body")
  /\ LET f == Top(t)
     IN \E o \in DisposeOutcomes :
          /\ ctxs' = [ctxs EXCEPT ![f.ctx] = m_ctx("disposed")]
          /\ IF o = "crashed"
               THEN /\ aborted' = TRUE
                    /\ SetTop(t, [f EXCEPT !.pc = "crashed"])
                    /\ locker' = locker
               ELSE /\ aborted' = aborted
                    /\ SetTop(t, [f EXCEPT !.pc = "done"])
                    /\ locker' = Unlocked(f)
  /\ UNCHANGED <<initVars, values, tableVars, calls>>

(* ---------------------------- LoadModule ------------------------------- *)
LoadModuleFrame(c, source, name, resolve) ==
  [Frame("LoadModule", "go_lock", c) EXCEPT !.source = source, !.origin = name,
                                            !.resolve = resolve]

\* Calls of Engine.LoadModule made so far.
LoadsStarted == Cardinality(tokensIssued)
                  + Cardinality({f \in AllFrames : f.op = "LoadModule"
                                                   /\ f.pc \in {"go_lock", "go_inc", "go_put"}})

LoadModuleCall(t, c, source, name, resolve) ==
  /\ Idle(t) /\ Reachable(c)
  /\ LoadsStarted < MaxLoads
  /\ Push(t, LoadModuleFrame(c, source, name, resolve))
  /\ UNCHANGED <<initVars, ctxs, locker, values, tableVars, aborted>>

\* A table mutex that excludes nobody.
TableLockFreeNoExclusion(t) == TRUE

\* resolverTableLock.Lock() succeeds once no thread holds the mutex.
TableLockFree(t) == resolverTableLock = 0

GoLock(t) ==
  /\ At(t, "LoadModule", "go_lock")
  /\ TableLockFree(t)
  /\ resolverTableLock' = t
  /\ SetTop(t, [Top(t) EXCEPT !.pc = "go_inc"])
  /\ UNCHANGED <<initVars, ctxs, locker, values, nextResolverToken, resolverFuncs,
                 tokensIssued, aborted, calls>>

\* nextResolverToken++
GoIncrement(t) ==
  /\ At(t, "LoadModule", "go_inc")
  /\ nextResolverToken' = nextResolverToken + 1
  /\ SetTop(t, [Top(t) EXCEPT !.pc = "go_put"])
  /\ UNCHANGED <<initVars, ctxs, locker, values, resolverTableLock, resolverFuncs,
                 tokensIssued, aborted, calls>>

\* token := nextResolverToken; resolverFuncs[token] = resolve; resolverTableLock.Unlock()
GoPut(t) ==
  /\ At(t, "LoadModule", "go_put")
  /\ resolverFuncs' = Put(resolverFuncs, nextResolverToken, Top(t).resolve)
  /\ tokensIssued' = tokensIssued \cup {nextResolverToken}
  /\ resolverTableLock' = 0
  /\ SetTop(t, [Top(t) EXCEPT !.pc = "lock", !.token = nextResolverToken])
  /\ UNCHANGED <<initVars, ctxs, locker, values, nextResolverToken, aborted, calls>>

\* A return of the native LoadModule with `status`: back in Engine.LoadModule.
NativeReturn(t, f, status) ==
  /\ SetTop(t, [f EXCEPT !.pc = "go_delete", !.status = status])
  /\ locker' = Unlocked(f)

\* The status LoadModule returns when CompileModule fails.
CompileFailureStatus == 1

\* The identity hash of a fresh module: any hash, an earlier module's or another;
\* hashes being interchangeable, the first module of a context gets the least.
HashChoices(ctx) ==
  IF DOMAIN ctx.resolved = {}
    THEN {h \in IdentityHashes : \A g \in IdentityHashes : h <= g}
    ELSE IdentityHashes

\* ScriptCompiler::CompileModule
CompileModule(t) ==
  /\ At(t, "LoadModule", "body")
  /\ LET f == [Top(t) EXCEPT !.phase = "Compiling"]
     IN IF ~ModuleCompiles(f.source)
          THEN NativeReturn(t, f, CompileFailureStatus)
          ELSE \E h \in HashChoices(ctxs[f.ctx]) :
                 /\ SetTop(t, [f EXCEPT
                        !.pc = IF Len(ModuleRequests(f.source)) > 0 THEN "resolve" ELSE "register",
                        !.phase = IF Len(ModuleRequests(f.source)) > 0 THEN "Resolving"
                                  ELSE "Instantiating",
                        !.module = [name |-> f.origin, hash |-> h, status |-> "uninstantiated"]])
                 /\ locker' = locker
  /\ UNCHANGED <<initVars, ctxs, values, tableVars, aborted, calls>>

\* engine.go ResolveModule up to the call of the resolver: the table lookup, under
\* resolverTableLock. A token without a resolver answers (nil, 1).
ResolveModule(t) ==
  /\ At(t, "LoadModule", "resolve")
  /\ TableLockFree(t)
  /\ LET f == Top(t)
     IN IF f.token \in DOMAIN resolverFuncs
          THEN /\ SetTop(t, [f EXCEPT !.pc = "in_resolver",
                      !.resolverCalls = Append(@, [resolve |-> resolverFuncs[f.token],
                                                   specifier |-> ModuleRequests(f.source)[f.i + 1],
                                                   referrer |-> f.origin,
                                                   canon |-> "", status |-> -1,
                                                   known |-> FALSE])])
               /\ locker' = locker
          ELSE NativeReturn(t, f, 1)
  /\ UNCHANGED <<initVars, ctxs, values, tableVars, aborted, calls>>

\* A loop that does not look the canonical name up in the registry.
ResolveStatusNoLookup(ctx, canon, status) == IF status # 0 THEN Ptr(status) ELSE NULL

\* A loop that reports every resolver failure as 1.
ResolveStatusFlattened(ctx, canon, status) ==
  IF status # 0 THEN Ptr(1)
  ELSE IF canon \notin DOMAIN ctx.modules THEN Ptr(2)
  ELSE NULL

\* What LoadModule does with the resolver's answer (retval.r0, retval.r1): the status
\* it returns with, or null when the loop goes on.
ResolveStatus(ctx, canon, status) ==
  IF status # 0 THEN Ptr(status)
  ELSE IF canon \notin DOMAIN ctx.modules THEN Ptr(2)
  ELSE NULL

\* ctx->modules[retval.r0]
ModuleAt(ctx, canon) == IF canon \in DOMAIN ctx.modules THEN ctx.modules[canon] ELSE NoModule

\* The resolver hands back (canon, status): the rest of the loop body of LoadModule.
ResolverReturn(t, canon, status) ==
  /\ At(t, "LoadModule", "in_resolver")
  /\ LET f0 == Top(t)
         n == Len(f0.resolverCalls)
         ctx == ctxs[f0.ctx]
         f == [f0 EXCEPT !.resolverCalls[n].canon = canon, !.resolverCalls[n].status = status,
                         !.resolverCalls[n].known = (canon \in DOMAIN ctx.modules)]
         dependencySpecifier == ModuleRequests(f.source)[f.i + 1]
         ret == ResolveStatus(ctx, canon, status)
     IN IF ~IsNull(ret)
          THEN NativeReturn(t, f, Deref(ret))
          ELSE /\ SetTop(t, [f EXCEPT
                      !.resolved = Put(@, dependencySpecifier, ModuleAt(ctx, canon)),
                      !.i = @ + 1,
                      !.pc = IF f.i + 1 < Len(ModuleRequests(f.source))
                               THEN "resolve" ELSE "register",
                      !.phase = IF f.i + 1 < Len(ModuleRequests(f.source))
                                  THEN "Resolving" ELSE "Instantiating"])
               /\ locker' = locker
  /\ UNCHANGED <<initVars, ctxs, values, tableVars, aborted, calls>>

\* The resolver loads a module itself, on the same context, before it answers.
ResolverLoads(t, source, name, resolve) ==
  /\ At(t, "LoadModule", "in_resolver")
  /\ Top(t).resolverCalls[Len(Top(t).resolverCalls)].resolve \in LoadingResolvers
  /\ LoadsStarted < MaxLoads
  /\ Push(t, LoadModuleFrame(Top(t).ctx, source, name, resolve))
  /\ UNCHANGED <<initVars, ctxs, locker, values, tableVars, aborted>>

\* ctx->modules[name_s] = persistentModule; ctx->resolved[hash] = resolved
RegisterModule(t) ==
  /\ At(t, "LoadModule", "register")
  /\ LET f == Top(t)
     IN /\ ctxs' = [ctxs EXCEPT ![f.ctx].modules = Put(@, f.origin, f.module),
                                ![f.ctx].resolved = Put(@, f.module.hash, f.resolved)]
        /\ SetTop(t, [f EXCEPT !.pc = "instantiate", !.registered = TRUE])
  /\ UNCHANGED <<initVars, locker, values, tableVars, aborted, calls>>

\* A callback that answers for the specifier from any referrer's entries.
ResolveCallbackAnyReferrer(ctx, specifier, referrer) ==
  IF \E h \in DOMAIN ctx.resolved : specifier \in DOMAIN ctx.resolved[h]
    THEN LET h == CHOOSE h \in DOMAIN ctx.resolved : specifier \in DOMAIN ctx.resolved[h]
         IN Ptr(ctx.resolved[h][specifier])
    ELSE NULL

\* ResolveCallback(context, specifier, referrer): the recorded module, or none.
ResolveCallback(ctx, specifier, referrer) ==
  IF referrer.hash \notin DOMAIN ctx.resolved
    THEN NULL
    ELSE LET localResolve == ctx.resolved[referrer.hash]
         IN IF specifier \notin DOMAIN localResolve THEN NULL
            ELSE Ptr(localResolve[specifier])

\* An instantiation that never fails.
InstantiateModuleUnchecked(ctx, module, source) == TRUE

\* module->InstantiateModule(context, ResolveCallback): every request is resolved
\* through the callback, the imports must link, and a dependency whose own
\* instantiation failed fails again.
InstantiateModule(ctx, module, source) ==
  LET reqs == ModuleRequests(source)
      answers == [k \in 1..Len(reqs) |-> ResolveCallback(ctx, reqs[k], module)]
  IN /\ \A k \in 1..Len(reqs) : ~IsNull(answers[k])
     /\ ModuleLinks(source)
     /\ \A k \in 1..Len(reqs) : Deref(answers[k]).status # "uninstantiated"

\* The engine's state of the module registered under `name`.
SetStatus(ctx, name, status) == [ctx EXCEPT !.modules[name].status = status]

Instantiate(t) ==
  /\ At(t, "LoadModule", "instantiate")
  /\ LET f == Top(t)
     IN IF InstantiateModule(ctxs[f.ctx], f.module, f.source)
          THEN /\ ctxs' = [ctxs EXCEPT ![f.ctx] = SetStatus(@, f.origin, "instantiated")]
               /\ SetTop(t, [f EXCEPT !.pc = "evaluate", !.phase = "Evaluating",
                                      !.module.status = "instantiated"])
               /\ locker' = locker
          ELSE /\ ctxs' = ctxs
               /\ NativeReturn(t, f, 3)
  /\ UNCHANGED <<initVars, values, tableVars, aborted, calls>>

\* module->Evaluate(context) comes back empty: the body throws, or a dependency did.
EvaluateThrows(ctx, module, source) ==
  \/ ModuleThrows(source)
  \/ \E s \in DOMAIN ctx.resolved[module.hash] : ctx.resolved[module.hash][s].status = "errored"

Evaluate(t) ==
  /\ At(t, "LoadModule", "evaluate")
  /\ LET f == Top(t)
     IN IF EvaluateThrows(ctxs[f.ctx], f.module, f.source)
          THEN LET err == ExceptionError(ModuleTryCatch(f.source, f.origin))
               IN \E o \in PrintfOutcomes(err.msg) :
                    /\ ctxs' = [ctxs EXCEPT ![f.ctx] = SetStatus(@, f.origin, "errored")]
                    /\ IF o = "crashed"
                         THEN /\ aborted' = TRUE
                              /\ SetTop(t, [f EXCEPT !.pc = "crashed"])
                              /\ locker' = locker
                         ELSE /\ aborted' = aborted
                              /\ NativeReturn(t, f, 4)
          ELSE /\ ctxs' = [ctxs EXCEPT ![f.ctx] = SetStatus(@, f.origin, "evaluated")]
               /\ aborted' = aborted
               /\ NativeReturn(t, [f EXCEPT !.phase = "Done"], 0)
  /\ UNCHANGED <<initVars, values, tableVars, calls>>

\* resolverTableLock.Lock(); delete(resolverFuncs, token); resolverTableLock.Unlock()
GoDelete(t) ==
  /\ At(t, "LoadModule", "go_delete")
  /\ TableLockFree(t)
  /\ resolverFuncs' = Remove(resolverFuncs, Top(t).token)
  /\ SetTop(t, [Top(t) EXCEPT !.pc = "done"])
  /\ UNCHANGED <<initVars, ctxs, locker, values, resolverTableLock, nextResolverToken,
                 tokensIssued, aborted, calls>>

(* ------------------------------ return --------------------------------- *)
\* The operation hands its result to its caller.
Return(t) ==
  /\ Running(t) /\ Top(t).pc = "done"
  /\ stack' = [stack EXCEPT ![t] = SubSeq(@, 1, Len(@) - 1)]
  /\ UNCHANGED <<initVars, ctxs, locker, values, tableVars, aborted, calls>>

(* ------------------- finalizer order and stale handles ------------------ *)
\* An access through a pointer to freed memory is undefined behaviour: it goes
\* unnoticed, the freed bytes still reading as before, or the process dies.
DanglingOutcomes == {"unnoticed", "crashed"}

\* Engine.finalizer run by the collector while Values the Engine produced are alive:
\* a Value holds no reference to its Engine, so nothing keeps the Engine reachable.
EngineFinalizerCall(t, c) ==
  /\ Idle(t) /\ Reachable(c)
  /\ ~\E f \in AllFrames : f.ctx = c
  /\ LiveValues(c) # {}
  /\ Push(t, Frame("DisposeContext", "lock", c))
  /\ UNCHANGED <<initVars, ctxs, locker, values, tableVars, aborted>>

\* Value.String() or Value.finalizer on a Value whose Engine has been finalized:
\* val->context points to the deleted m_ctx.
OrphanValueCall(t, op, v) ==
  /\ Idle(t)
  /\ values[v] # NoValue /\ ctxs[values[v].ctx].state = "disposed"
  /\ Push(t, [Frame(op, "dangling", values[v].ctx) EXCEPT !.val = v])
  /\ UNCHANGED <<initVars, ctxs, locker, values, tableVars, aborted>>

\* DisposeValue(ptr) once more with the pointer the call that just returned has
\* deleted: ptr is not null, so the call reads val->context from the freed m_value.
StaleDisposeValueCall(t) ==
  /\ At(t, "DisposeValue", "done")
  /\ Top(t).val # 0 /\ values[Top(t).val] = NoValue
  /\ calls < MaxCalls
  /\ calls' = calls + 1
  /\ SetTop(t, [Top(t) EXCEPT !.pc = "stale"])
  /\ UNCHANGED <<initVars, ctxs, locker, values, tableVars, aborted>>

\* The body of a value operation that works on freed memory.
Dangling(t) ==
  /\ Running(t) /\ Top(t).pc \in {"dangling", "stale"}
  /\ LET f == Top(t)
     IN \E o \in DanglingOutcomes :
          IF o = "crashed"
            THEN /\ aborted' = TRUE
                 /\ values' = values
                 /\ SetTop(t, [f EXCEPT !.pc = "crashed"])
            ELSE /\ aborted' = aborted
                 /\ values' = IF f.op = "DisposeValue" /\ f.pc = "dangling"
                                THEN [values EXCEPT ![f.val] = NoValue]
                                ELSE values
                 /\ SetTop(t, [f EXCEPT
                        !.pc = "done",
                        !.str = IF f.op = "ValueToString"
                                  THEN Ptr(GoString(CopyStringUtf8(values[f.val].str)))
                                  ELSE @])
  /\ UNCHANGED <<initVars, ctxs, locker, tableVars, calls>>

(* --------------------------- specifications ---------------------------- *)
\* The steps of thread t when the host draws its inputs from the given sets.
Step(t, sources, payloads, moduleSources, moduleNames, resolvers, answers) ==
  \/ NewEngineCall(t)
  \/ OnceDo(t)
  \/ NewContext(t)
  \/ \E c \in CtxIds, s \in sources, o \in Origins : RunCall(t, c, s, o)
  \/ \E c \in CtxIds, m \in payloads : SendCall(t, c, m)
  \/ \E c \in CtxIds, s \in moduleSources, n \in moduleNames, r \in resolvers :
       LoadModuleCall(t, c, s, n, r)
  \/ \E v \in ValueSlots : ValueToStringCall(t, v)
  \/ \E v \in ValueSlots \cup {0} : DisposeValueCall(t, v)
  \/ \E c \in CtxIds : DisposeContextCall(t, c)
  \/ Lock(t)
  \/ Run(t)
  \/ Send(t)
  \/ ValueToString(t)
  \/ DisposeValue(t)
  \/ DisposeContext(t)
  \/ GoLock(t)
  \/ GoIncrement(t)
  \/ GoPut(t)
  \/ CompileModule(t)
  \/ ResolveModule(t)
  \/ \E a \in answers : ResolverReturn(t, a[1], a[2])
  \/ \E s \in moduleSources, n \in moduleNames, r \in Resolvers \ LoadingResolvers :
       ResolverLoads(t, s, n, r)
  \/ RegisterModule(t)
  \/ Instantiate(t)
  \/ Evaluate(t)
  \/ GoDelete(t)
  \/ Return(t)

\* One host thread, every input.
Next ==
  \E t \in MainThread :
    Step(t, Sources, Payloads, ModuleSources, ModuleNames, LoadingResolvers, ResolverAnswers)

Spec == Init /\ [][Next]_vars

\* Several host threads, fewer inputs.
ConcSources == {"1+1", "V8Engine.cb(f1)"}
ConcPayloads == {<<7, 9>>}
ConcModuleSources == {"export const x = 1;", "import './b'; import './c';"}
ConcModuleNames == {"a.js"}
ConcAnswers == {<<"a.js", 0>>, <<"", 1>>}

NextConc ==
  \E t \in Threads :
    Step(t, ConcSources, ConcPayloads, ConcModuleSources, ConcModuleNames,
         LoadingResolvers, ConcAnswers)

SpecConc == Init /\ [][NextConc]_vars

\* One host thread that runs scripts and uses and disposes handles in every order
\* the collector and the native interface allow.
HandleSources == {"1+1", "throw ''"}

NextHandles ==
  \E t \in MainThread :
    \/ NewEngineCall(t)
    \/ OnceDo(t)
    \/ NewContext(t)
    \/ \E c \in CtxIds, s \in HandleSources, o \in Origins : RunCall(t, c, s, o)
    \/ \E v \in ValueSlots : ValueToStringCall(t, v)
    \/ \E v \in ValueSlots \cup {0} : DisposeValueCall(t, v)
    \/ \E c \in CtxIds : DisposeContextCall(t, c)
    \/ \E c \in CtxIds : EngineFinalizerCall(t, c)
    \/ \E v \in ValueSlots, op \in {"ValueToString", "DisposeValue"} : OrphanValueCall(t, op, v)
    \/ StaleDisposeValueCall(t)
    \/ Lock(t)
    \/ Run(t)
    \/ ValueToString(t)
    \/ DisposeValue(t)
    \/ DisposeContext(t)
    \/ Dangling(t)
    \/ Return(t)

SpecHandles == Init /\ [][NextHandles]_vars

(* ------------------------------ properties ----------------------------- *)
\* Thread t is in the operation op, at one of the places pcs.
InFrame(t, op, pcs) == stack[t] # <<>> /\ Top(t).op = op /\ Top(t).pc \in pcs

\* C1: every Run returns exactly one of a Value and an Error, and it returns the
\* Value exactly when the script compiles and does not throw.
C1_RunReturnsValueOrError ==
  \A t \in Threads :
    InFrame(t, "Run", {"done"}) =>
      LET f == Top(t)
      IN /\ (f.goValue # 0) # (~IsNull(f.goError))
         /\ (f.goValue # 0) <=> (ScriptCompiles(f.source) /\ ~ScriptThrows(f.source))

\* C2: the location of the Error of a failing Run starts with the origin argument.
C2_LocationNamesOrigin ==
  \A t \in Threads :
    (InFrame(t, "Run", {"done"}) /\ ~IsNull(Top(t).goError)
       /\ Deref(Top(t).goError).Location # <<>>)
      => Deref(Top(t).goError).Location[1] = Top(t).origin

\* Engine.LoadModule of thread t has its status from the native LoadModule.
LoadModuleReturned(t) == InFrame(t, "LoadModule", {"go_delete", "done"})
LastCall(f) == f.resolverCalls[Len(f.resolverCalls)]
\* The load f stopped at a dependency: its resolver reported failure, or named a
\* module the registry did not hold.
ResolverFailed(f) ==
  f.resolverCalls # <<>> /\ LastCall(f).status \notin {0, -1}
ResolverNamedUnknown(f) ==
  f.resolverCalls # <<>> /\ LastCall(f).status = 0 /\ ~LastCall(f).known
Unresolved(f) == ResolverFailed(f) \/ ResolverNamedUnknown(f)

\* C3: the status of a load is one of 0..4 and names its cause: 0 the whole load
\* succeeded, 1 the resolver reported failure, 2 the resolver named an unknown
\* module, 3 instantiation failed, 4 evaluation failed.
C3_StatusIdentifiesCause ==
  \A t \in Threads :
    LoadModuleReturned(t) =>
      LET f == Top(t)
      IN /\ f.status \in 0..4
         /\ f.status = 0 => f.phase = "Done"
         /\ f.status = 1 => (f.phase = "Resolving" /\ ResolverFailed(f))
         /\ f.status = 2 => (f.phase = "Resolving" /\ ResolverNamedUnknown(f))
         /\ f.status = 3 => f.phase = "Instantiating"
         /\ f.status = 4 => f.phase = "Evaluating"

C4_UnresolvedStatus ==
  \A t \in Threads :
    (LoadModuleReturned(t) /\ Unresolved(Top(t))) =>
      LET f == Top(t)
      IN /\ f.status # 0
         /\ f.status = (IF ResolverFailed(f) THEN LastCall(f).status ELSE 2)
         /\ ~f.registered

\* The load f has all its dependencies resolved to modules of the registry.
AllResolved(f) ==
  /\ f.i = Len(ModuleRequests(f.source))
  /\ Len(f.resolverCalls) = f.i
  /\ \A k \in 1..f.i : f.resolverCalls[k].status = 0 /\ f.resolverCalls[k].known

\* A step that writes the registry or the resolution table of a context is a step of
\* a load on that context with all its dependencies resolved, or the disposal.
C4_RegistryWrittenAfterResolution ==
  \A c \in CtxIds :
    (ctxs'[c].modules # ctxs[c].modules \/ ctxs'[c].resolved # ctxs[c].resolved) =>
      \E t \in Threads :
        /\ stack[t] # <<>> /\ stack'[t] # stack[t] /\ Top(t).ctx = c
        /\ \/ Top(t).op = "DisposeContext"
           \/ /\ InFrame(t, "LoadModule", {"register", "instantiate", "evaluate"})
              /\ AllResolved(Top(t))

TopNext(t) == stack'[t][Len(stack'[t])]
\* Thread t takes the step of the native Send.
SendStep(t) == InFrame(t, "Send", {"body"}) /\ stack'[t] # stack[t]

\* C6: on a context where no callback was ever registered, Send returns 2 whatever
\* the payload and invokes no script code.
C6_SendWithoutCallback ==
  [][\A t \in Threads :
       (SendStep(t) /\ IsNull(ctxs[Top(t).ctx].lastRegistered)) =>
         /\ TopNext(t).pc = "done"
         /\ TopNext(t).status = 2
         /\ TopNext(t).invoked = <<>>
         /\ ctxs' = ctxs]_vars

\* A Send of two bytes came back with 2 on a context that has loaded a module and
\* never registered a callback.
C6_Witness ==
  \E t \in Threads :
    /\ InFrame(t, "Send", {"done"})
    /\ Top(t).status = 2 /\ Top(t).payload = <<7, 9>> /\ Top(t).invoked = <<>>
    /\ IsNull(ctxs[Top(t).ctx].lastRegistered)
    /\ DOMAIN ctxs[Top(t).ctx].modules # {}

\* C7: once a callback f is registered, Send invokes f exactly once with one buffer
\* equal to the payload, and returns 0 when f does not throw and 3 when it throws.
C7_SendInvokesCallbackOnce ==
  [][\A t \in Threads :
       (SendStep(t) /\ ~IsNull(ctxs[Top(t).ctx].lastRegistered)) =>
         LET func == Deref(ctxs[Top(t).ctx].lastRegistered)
         IN /\ TopNext(t).pc = "done"
            /\ TopNext(t).invoked = <<[func |-> func, args |-> <<Top(t).payload>>]>>
            /\ TopNext(t).status = (IF FuncThrows(func) THEN 3 ELSE 0)]_vars

\* The slot of every context holds the function registered last, or nothing.
C8_SlotHoldsLatest == \A c \in CtxIds : ctxs[c].cb = ctxs[c].lastRegistered

\* A Send invokes the function registered last, once, and no other.
C8_SendInvokesLatest ==
  \A t \in Threads :
    SendStep(t) =>
      LET last == ctxs[Top(t).ctx].lastRegistered
          inv == TopNext(t).invoked
      IN /\ Len(inv) <= 1
         /\ ~IsNull(last) => Len(inv) = 1
         /\ \A k \in 1..Len(inv) : ~IsNull(last) /\ inv[k].func = Deref(last)

\* C8: the slot holds at most one callback, the one registered last, and it is the
\* only function a Send invokes.
C8_RegistrationReplaces == []C8_SlotHoldsLatest /\ [][C8_SendInvokesLatest]_vars

\* f2 was registered over another function and a Send then invoked f2.
C8_Witness ==
  \E t \in Threads :
    /\ InFrame(t, "Send", {"done"})
    /\ ctxs[Top(t).ctx].replaced
    /\ ctxs[Top(t).ctx].lastRegistered = Ptr("f2")
    /\ Len(Top(t).invoked) = 1 /\ Top(t).invoked[1].func = "f2"

\* The frame f is between taking the Locker of its context and its return.
InBody(f) ==
  f.pc \in {"body", "resolve", "in_resolver", "register", "instantiate", "evaluate", "crashed"}
\* The frames of thread t that are in their bodies on context c.
BodiesOn(t, c) == {k \in 1..Len(stack[t]) : InBody(stack[t][k]) /\ stack[t][k].ctx = c}

\* C9: an operation in its body holds the Locker of its context, the Locker is free
\* again once the operation has returned on any path, no two threads are in bodies on
\* one context, and an operation waiting for a context is held up only by a body on
\* that same context.
C9_MutualExclusion ==
  /\ \A t \in Threads, c \in CtxIds : BodiesOn(t, c) # {} => locker[c] = t
  /\ \A c \in CtxIds : locker[c] # 0 => BodiesOn(locker[c], c) # {}
  /\ \A t1, t2 \in Threads, c \in CtxIds :
       (BodiesOn(t1, c) # {} /\ BodiesOn(t2, c) # {}) => t1 = t2
  /\ \A t \in Threads :
       (stack[t] # <<>> /\ Top(t).pc = "lock"
          /\ \A u \in Threads \ {t} : BodiesOn(u, Top(t).ctx) = {})
         => locker[Top(t).ctx] \in {0, t}

\* Two threads are in the bodies of operations on two contexts at once, each holding
\* the Locker of its own context.
C9_Witness ==
  \E t1, t2 \in Threads :
    /\ t1 # t2
    /\ stack[t1] # <<>> /\ stack[t2] # <<>>
    /\ InBody(Top(t1)) /\ InBody(Top(t2))
    /\ Top(t1).ctx # Top(t2).ctx
    /\ locker[Top(t1).ctx] = t1 /\ locker[Top(t2).ctx] = t2

\* The frame f is a load that has its token.
HoldsToken(f) == f.op = "LoadModule" /\ f.pc \notin {"go_lock", "go_inc", "go_put"}

\* No two loads in flight hold the same token.
C10_TokensDistinct ==
  \A t1, t2 \in Threads :
    \A k1 \in 1..Len(stack[t1]), k2 \in 1..Len(stack[t2]) :
      (<<t1, k1>> # <<t2, k2>> /\ HoldsToken(stack[t1][k1]) /\ HoldsToken(stack[t2][k2]))
        => stack[t1][k1].token # stack[t2][k2].token

\* The token a load obtains is greater than every token handed out before it.
C10_TokenIsFresh ==
  \A t \in Threads :
    (InFrame(t, "LoadModule", {"go_put"}) /\ stack'[t] # stack[t]) =>
      /\ TopNext(t).token \notin tokensIssued
      /\ \A k \in tokensIssued : TopNext(t).token > k

\* C10: resolver tokens are strictly increasing and never reused, between loads in
\* flight on any threads and between a load and every load before it.
C10_TokensNeverReused == []C10_TokensDistinct /\ [][C10_TokenIsFresh]_vars

\* Two threads are in loads at once, each with its own token.
C10_Witness ==
  \E t1, t2 \in Threads :
    /\ t1 # t2
    /\ stack[t1] # <<>> /\ stack[t2] # <<>>
    /\ HoldsToken(Top(t1)) /\ HoldsToken(Top(t2))
    /\ Top(t1).pc # "done" /\ Top(t2).pc # "done"
    /\ Top(t1).token < Top(t2).token

\* The load f is in flight: it has put its resolver in the table and has not yet
\* deleted it.
InFlight(f) == HoldsToken(f) /\ f.pc # "done"
InFlightLoads == {f \in AllFrames : InFlight(f)}

\* C11: the resolver table holds exactly the tokens of the loads in flight, each
\* mapped to the resolver that load was given; every resolver call of a load went to
\* its own resolver; a load that has returned has no association left, so the table
\* is empty when no load is in flight.
C11_TableHoldsLoadsInFlight ==
  /\ DOMAIN resolverFuncs = {f.token : f \in InFlightLoads}
  /\ \A f \in InFlightLoads : resolverFuncs[f.token] = f.resolve
  /\ \A f \in AllFrames :
       f.op = "LoadModule" =>
         \A k \in 1..Len(f.resolverCalls) : f.resolverCalls[k].resolve = f.resolve
  /\ InFlightLoads = {} => resolverFuncs = EmptyMap

\* A load has returned to its caller while another load, which has called its own
\* resolver, is still in the table.
C11_Witness ==
  \E f, g \in AllFrames :
    /\ f.op = "LoadModule" /\ f.pc = "done" /\ f.token \notin DOMAIN resolverFuncs
    /\ InFlight(g) /\ g.resolverCalls # <<>>
    /\ DOMAIN resolverFuncs = {g.token}

\* The specifiers a module of ModuleSources requests.
LinkSpecifiers == {"./b", "./c"}
\* A module as the engine presents a referrer: by its identity hash.
Referrer(h) == [NoModule EXCEPT !.hash = h]
\* The resolution table of ctx has an entry for the referrer hash h and specifier s.
Recorded(ctx, h, s) == h \in DOMAIN ctx.resolved /\ s \in DOMAIN ctx.resolved[h]

\* Whatever the referrer and the specifier, ResolveCallback answers with the entry of
\* the table, and with no module where the table has none; a module with a request
\* that has no entry does not instantiate.
C12_AnswersFromTable ==
  \A c \in CtxIds, h \in IdentityHashes :
    /\ \A s \in LinkSpecifiers :
         ResolveCallback(ctxs[c], s, Referrer(h)) =
           (IF Recorded(ctxs[c], h, s) THEN Ptr(ctxs[c].resolved[h][s]) ELSE NULL)
    /\ \A source \in ModuleSources :
         (\E k \in 1..Len(ModuleRequests(source)) :
            ~Recorded(ctxs[c], h, ModuleRequests(source)[k]))
           => ~InstantiateModule(ctxs[c], Referrer(h), source)

\* A step of a load that is instantiating or evaluating makes no resolver call and
\* touches no resolver table; the requests of the instantiation are answered with the
\* modules the load recorded while resolving; a failed instantiation returns 3.
C12_LinkStep ==
  \A t \in Threads :
    (InFrame(t, "LoadModule", {"instantiate", "evaluate"}) /\ stack'[t] # stack[t]) =>
      LET f == Top(t)
          reqs == ModuleRequests(f.source)
      IN /\ Len(stack'[t]) = Len(stack[t])
         /\ TopNext(t).resolverCalls = f.resolverCalls
         /\ TopNext(t).pc \in {"evaluate", "go_delete", "crashed"}
         /\ UNCHANGED tableVars
         /\ f.pc = "instantiate" =>
              /\ \A k \in 1..Len(reqs) :
                   ResolveCallback(ctxs[f.ctx], reqs[k], f.module) = Ptr(f.resolved[reqs[k]])
              /\ ~InstantiateModule(ctxs[f.ctx], f.module, f.source) =>
                   (TopNext(t).pc = "go_delete" /\ TopNext(t).status = 3)

RegistryShrinks(c) == ~(DOMAIN ctxs[c].modules \subseteq DOMAIN ctxs'[c].modules)
\* The step is the disposal of context c.
DisposalStep(c) ==
  /\ \E t \in Threads : InFrame(t, "DisposeContext", {"body"}) /\ Top(t).ctx = c
  /\ ctxs[c].state = "live" /\ ctxs'[c].state = "disposed"

\* C13: the name->module registry of a context is monotonic: whatever Run,
\* LoadModule (with any outcome), callback registration and Send do, a name once in
\* the registry stays in it until the context is disposed; only the disposal of the
\* context removes entries.
C13_RegistryMonotonic ==
  [][\A c \in CtxIds : RegistryShrinks(c) => DisposalStep(c)]_vars

\* A context holds both names, the second registered by a load that then failed to
\* instantiate or evaluate.
C13_Witness ==
  \E t \in Threads :
    /\ InFrame(t, "LoadModule", {"done"})
    /\ Top(t).status \in {3, 4}
    /\ Top(t).registered
    /\ DOMAIN ctxs[Top(t).ctx].modules = ModuleNames

\* Thread t steps as the second disposal of a handle.
SecondDisposalStep(t) == InFrame(t, "DisposeValue", {"stale"}) /\ stack'[t] # stack[t]
\* Thread t calls the disposal of the null handle.
NullDisposalStep(t) ==
  /\ stack[t] = <<>> /\ stack'[t] # <<>>
  /\ TopNext(t).op = "DisposeValue" /\ TopNext(t).val = 0
\* Thread t steps as the first disposal of the handle v.
FirstDisposalStep(t, v) ==
  /\ InFrame(t, "DisposeValue", {"body", "dangling"}) /\ Top(t).val = v
  /\ stack'[t] # stack[t]

\* C14: Value Handle disposal is idempotent: the second disposal of a handle and the
\* disposal of a null handle are no-ops that touch no context or value state; the
\* value is released once, by the first disposal.
C14_DisposalIdempotent ==
  [][/\ \A t \in Threads :
          (SecondDisposalStep(t) \/ NullDisposalStep(t)) =>
            (UNCHANGED <<ctxs, values, locker, aborted>> /\ TopNext(t).pc = "done")
     /\ \A v \in ValueSlots :
          (values[v] # NoValue /\ values'[v] = NoValue) =>
            \E t \in Threads : FirstDisposalStep(t, v)]_vars

\* A value operation on a real handle.
ValueOps == {f \in AllFrames : f.op \in {"ValueToString", "DisposeValue"} /\ f.val # 0}

\* C19: in the Go binding, whatever the order of the finalizers of an Engine and of
\* its Values, and however a reachable Value is used after its Engine became
\* unreachable, no value operation runs against a disposed context: a context is
\* disposed only after every Value Handle derived from it has been disposed.
C19_NoValueOpOnDisposedContext ==
  /\ \A c \in CtxIds : ctxs[c].state = "disposed" => LiveValues(c) = {}
  /\ \A f \in ValueOps : ctxs[f.ctx].state # "disposed"

\* C15: the engine is initialized at most once, however many contexts are created
\* and however many threads create them at the same time, and the initialization is
\* complete before any context creation proceeds.
C15_InitializedOnce ==
  /\ initCount <= 1
  /\ v8initDone <=> initCount = 1
  /\ \A f \in AllFrames :
       (f.op = "NewEngine" /\ f.pc \in {"newcontext", "done"}) => initCount = 1
  /\ \A c \in CtxIds : ctxs[c].state # "none" => initCount = 1

\* Two threads are creating contexts at once, both past the initialization, and a
\* context exists already.
C15_Witness ==
  /\ \E t1, t2 \in Threads :
       /\ t1 # t2
       /\ InFrame(t1, "NewEngine", {"newcontext"})
       /\ InFrame(t2, "NewEngine", {"newcontext", "done"})
  /\ \E c \in CtxIds : Live(c)
  /\ initCount = 1

\* The phases of a load, in order; a load not yet in its native part has none.
Phases == <<"", "Compiling", "Resolving", "Instantiating", "Evaluating", "Done">>
PhaseRank(p) == CHOOSE k \in 1..Len(Phases) : Phases[k] = p

\* Where a load stands agrees with what it has done so far.
C16_PhaseAgrees ==
  \A f \in AllFrames :
    f.op = "LoadModule" =>
      /\ f.phase \in {Phases[k] : k \in 1..Len(Phases)}
      /\ f.resolverCalls # <<>> => (ModuleCompiles(f.source) /\ PhaseRank(f.phase) >= 3)
      /\ f.registered => (AllResolved(f) /\ PhaseRank(f.phase) >= 4)
      /\ f.pc \in {"instantiate", "evaluate"} => f.registered
      /\ PhaseRank(f.phase) >= 5 =>
           /\ f.registered /\ f.module.status = "instantiated"
           /\ ModuleLinks(f.source)
      /\ (f.pc \in {"go_delete", "done"} /\ f.status = 0) =>
           (f.phase = "Done" /\ f.origin \in DOMAIN ctxs[f.ctx].modules)
      /\ (f.pc \in {"go_delete", "done"} /\ f.status # 0) => f.phase # "Done"
      /\ f.phase = "Done" => (f.pc \in {"go_delete", "done"} /\ f.status = 0)

\* A step moves a load forward only: the phase never goes back, the resolver is
\* called only while resolving and before the registration, the module is registered
\* only once every dependency is resolved, and a load that failed stays where it failed.
C16_PhaseStep ==
  \A t \in Threads :
    \A k \in 1..Len(stack[t]) :
      (k <= Len(stack'[t]) /\ stack[t][k].op = "LoadModule") =>
        LET f == stack[t][k]
            g == stack'[t][k]
        IN /\ g.op = "LoadModule"
           /\ PhaseRank(g.phase) >= PhaseRank(f.phase)
           /\ Len(g.resolverCalls) > Len(f.resolverCalls) =>
                (f.phase = "Resolving" /\ g.phase = "Resolving" /\ ~g.registered)
           /\ f.registered => g.registered
           /\ (g.registered /\ ~f.registered) =>
                (AllResolved(f) /\ f.phase = "Instantiating" /\ g.pc = "instantiate")
           /\ f.pc \in {"go_delete", "done"} =>
                (g.phase = f.phase /\ g.status = f.status /\ g.pc \in {"go_delete", "done"})

\* C16: every load moves through Compiling, Resolving, Instantiating, Evaluating, Done
\* in that order and a failure at any phase ends it: the resolver is called only after
\* a successful compile and before the registration, the module is registered only
\* after every dependency resolved, instantiated only after the registration,
\* evaluated only after a successful instantiation, and after a load returning 0 the
\* registry holds the module's name.
C16_PhasesInOrder == []C16_PhaseAgrees /\ [][C16_PhaseStep]_vars

\* A load with two dependencies has gone through every phase and returned 0.
C16_Witness ==
  \E t \in Threads :
    /\ InFrame(t, "LoadModule", {"done"})
    /\ Top(t).status = 0 /\ Top(t).phase = "Done"
    /\ Len(Top(t).resolverCalls) = 2
    /\ Top(t).origin \in DOMAIN ctxs[Top(t).ctx].modules

\* The registry of context c holds an instantiated module whose identity hash is h.
InstantiatedReferrer(c, h) ==
  \E n \in DOMAIN ctxs[c].modules :
    /\ ctxs[c].modules[n].hash = h
    /\ ctxs[c].modules[n].status \in {"instantiated", "evaluated", "errored"}

\* C17: the resolution entries recorded for a referrer never change after the
\* referrer's instantiation: whatever loads follow on the context, of other modules
\* or failing, the (referrer, specifier) -> module entries of an instantiated module
\* stay exactly what was recorded for it.
C17_ResolutionEntriesFixed ==
  [][\A c \in CtxIds :
       \A h \in DOMAIN ctxs[c].resolved :
         (InstantiatedReferrer(c, h) /\ ctxs'[c].state = "live") =>
           /\ h \in DOMAIN ctxs'[c].resolved
           /\ ctxs'[c].resolved[h] = ctxs[c].resolved[h]]_vars

\* C18: whatever status Send returns (0, 2 or 3), the payload bytes handed to the
\* native Send are owned by the engine's buffer, which alone releases them: after
\* Send has returned the payload is neither left to nobody (leaked) nor to the host.
C18_PayloadOwnedByEngine ==
  \A t \in Threads :
    InFrame(t, "Send", {"done"}) =>
      /\ Top(t).status \in {0, 2, 3}
      /\ Top(t).owner = "engine"

\* The frames k of thread t that are loads called by the resolver of the load below.
NestedLoads(t) ==
  {k \in 2..Len(stack[t]) : stack[t][k].op = "LoadModule" /\ stack[t][k - 1].op = "LoadModule"}

\* A nested load runs inside the resolver of the outer load, on the outer load's
\* context; the table lock is held only across the two table statements of a load,
\* never while a resolver or a native load runs, so the nested load finds it free;
\* the nested load has its own token, and the outer association stays in the table
\* with the outer resolver while the nested load runs and after it has deleted its own.
C20_NestedLoadState ==
  /\ \A t \in Threads :
       resolverTableLock = t => InFrame(t, "LoadModule", {"go_inc", "go_put"})
  /\ \A t \in Threads :
       \A k \in NestedLoads(t) :
         LET outer == stack[t][k - 1]
             inner == stack[t][k]
         IN /\ outer.pc = "in_resolver" /\ inner.ctx = outer.ctx
            /\ inner.pc \in {"go_lock", "resolve", "go_delete"} => resolverTableLock # t
            /\ HoldsToken(inner) => inner.token # outer.token
            /\ outer.token \in DOMAIN resolverFuncs
            /\ resolverFuncs[outer.token] = outer.resolve
            /\ InFlight(inner) => resolverFuncs[inner.token] = inner.resolve
            /\ inner.pc = "done" => inner.token \notin DOMAIN resolverFuncs
  /\ \A f \in AllFrames :
       f.op = "LoadModule" =>
         \A k \in 1..Len(f.resolverCalls) : f.resolverCalls[k].resolve = f.resolve

\* The deletion at the return of a load removes that load's association and no other.
C20_DeleteStep ==
  \A t \in Threads :
    (InFrame(t, "LoadModule", {"go_delete"}) /\ stack'[t] # stack[t]) =>
      /\ DOMAIN resolverFuncs' = DOMAIN resolverFuncs \ {Top(t).token}
      /\ \A k \in DOMAIN resolverFuncs' : resolverFuncs'[k] = resolverFuncs[k]

\* C20: a resolver may call LoadModule on the same context while it is being called
\* for an outer load: the nested load does not deadlock on the resolver-table lock,
\* gets its own token, removes only its own association when it returns, and leaves
\* the outer load's association in place, so that the outer load's remaining
\* dependencies are resolved by the outer resolver.
C20_ResolverMayReenter == []C20_NestedLoadState /\ [][C20_DeleteStep]_vars

\* The first load of the process resolved its first dependency to a module its
\* resolver loaded meanwhile, the nested load has returned and deleted its token, and
\* the outer load has called its own resolver for the second dependency.
C20_Witness ==
  \E t \in Threads :
    /\ InFrame(t, "LoadModule", {"in_resolver"})
    /\ Len(stack[t]) = 1
    /\ Top(t).token = 1 /\ tokensIssued = {1, 2}
    /\ DOMAIN resolverFuncs = {1}
    /\ Len(Top(t).resolverCalls) = 2
    /\ Top(t).resolverCalls[1].known
    /\ Top(t).resolverCalls[2].resolve = Top(t).resolve
====
